---- MODULE Spec2Model ----
(***************************************************************************)
(* Token relay of PixMix: the client side token acquisition of             *)
(* pixmix-frontend/services/authService.ts (the build that sends           *)
(* GET /auth/public-token with an identity token, and the build of         *)
(* unnamed/part_001 that sends POST /auth/device-token with a device id),  *)
(* its single-slot token cache, and the minting routes of                  *)
(* gcloud-authentication/src/routes/auth.ts.                               *)
(*                                                                         *)
(* Client code is asynchronous and cooperative: a call runs without        *)
(* interruption between two awaits, so each action below is the code       *)
(* between two suspension points of one call.                              *)
(***************************************************************************)
EXTENDS Integers, Sequences, FiniteSets, TLC

(* ------------------------------ bounds --------------------------------- *)
MaxCalls == 2      \* calls of getCloudRunToken / getCachedCloudRunToken
MaxTicks == 1      \* passages of time other than a backoff wait
MaxFailures == 3   \* mint requests that fail, over all calls
MaxRequests == 3   \* requests the service receives
MaxServiceTicks == 2  \* passages of time at the service
MaxDeviceRequests == 1  \* requests POST /auth/device-token receives

Calls == 1..MaxCalls
Requests == 1..MaxRequests

(* --------------------------- program constants ------------------------- *)
(* variant: a budget of four attempts *)
maxRetriesPlusOne == 3 + 1

maxRetries == 3
BackoffBaseMs == 1000
CacheLifetimeMs == 50 * 60 * 1000
ExpiresInSeconds == 3600
DeviceBuildMarginSeconds == 60

Null == -1         \* null of `number | null` (epoch milliseconds are >= 0)

(* A minted token is the opaque string of one mint response; the record    *)
(* names the response it came from.                                        *)
NoToken == [call |-> 0, attempt |-> 0, issuedAt |-> 0, preClear |-> FALSE]

Err(message, status) == [message |-> message, status |-> status, wraps |-> <<>>]
NoError == Err("", 0)

NoResult == [done |-> FALSE, ok |-> FALSE, token |-> NoToken, error |-> NoError,
             fromCache |-> FALSE, first |-> FALSE]

VARIABLES
  build,                \* which authService.ts is loaded
  isDevice,             \* Device.isDevice
  osName,               \* Device.osName
  clock,                \* Date.now()
  ticks,                \* passages of time so far
  cachedCloudRunToken,  \* module variable
  tokenExpiry,          \* module variable
  device_id,            \* AsyncStorage item 'device_id' ("" when absent)
  pc,                   \* where each call is suspended
  kind,                 \* "cached" (getCachedCloudRunToken) or "direct"
  now,                  \* local `now` of getCachedCloudRunToken
  deviceId,             \* local `deviceId` of getCloudRunToken (device build)
  identityToken,        \* local `identityToken`: requests the call had sent when it was fetched
  retryCount,           \* local `retryCount`
  reqPreClear,          \* the pending fetch was issued before a clearTokenCache
  wakeAt,               \* time the pending setTimeout is due
  reqCount,             \* mint requests sent by the call
  waits,                \* delays handed to setTimeout by the call
  authDenied,           \* an attempt of the call was answered 401 or 403
  lastError,            \* error the call's retry loop rethrew
  result,               \* what the call returned or threw
  pristine,             \* no getCachedCloudRunToken call since the cache was emptied
  failures,             \* mint requests that have failed so far
  privateKey,           \* process.env.CLOUD_RUN_PRIVATE_KEY of the service
  req                   \* the requests the service has received

vars == <<build, isDevice, osName, clock, ticks, cachedCloudRunToken, tokenExpiry,
          device_id, pc, kind, now, deviceId, identityToken, retryCount, reqPreClear,
          wakeAt, reqCount, waits, authDenied, lastError, result, pristine, failures,
          privateKey, req>>

cacheVars == <<cachedCloudRunToken, tokenExpiry>>
envVars == <<build, isDevice, osName>>
serviceVars == <<privateKey, req>>
clientVars == <<build, isDevice, osName, ticks, cachedCloudRunToken, tokenExpiry,
                device_id, pc, kind, now, deviceId, identityToken, retryCount, reqPreClear,
                wakeAt, reqCount, waits, authDenied, lastError, result, pristine, failures>>

(* ------------------------------ server --------------------------------- *)

(* CLOUD_RUN_PRIVATE_KEY: unset, a key jwt.sign accepts, one it rejects *)
PrivateKeys == {"", "pem", "malformed"}

(* process.env.CLOUD_RUN_SERVICE_ACCOUNT_EMAIL *)
ServiceAccountEmail == "service-account-email"

Audience == "https://gcloud-authentication-493914627855.us-central1.run.app"

(* the token of a response body: none, the access token of the upstream    *)
(* issuance (opaque), or the assertion signed by the service               *)
NoJwt == [kind |-> "none", iss |-> "", sub |-> "", aud |-> "", iat |-> 0, exp |-> 0]
AccessToken == [kind |-> "access", iss |-> "", sub |-> "", aud |-> "", iat |-> 0, exp |-> 0]

(* variant: the lifetime added in milliseconds *)
PayloadExpiryInMs(t) ==
  [kind |-> "assertion", iss |-> ServiceAccountEmail, sub |-> ServiceAccountEmail,
   aud |-> Audience, iat |-> t, exp |-> t + 3600 * 1000]

(* payload of the identity token, now in seconds *)
Payload(t) ==
  [kind |-> "assertion", iss |-> ServiceAccountEmail, sub |-> ServiceAccountEmail,
   aud |-> Audience, iat |-> t, exp |-> t + 3600]

NoResponse == [status |-> 0, token |-> NoJwt, expiresIn |-> 0, error |-> "", details |-> ""]

(* res.json({ token, expiresIn: 3600, timestamp }) *)
JsonToken(tok) ==
  [status |-> 200, token |-> tok, expiresIn |-> ExpiresInSeconds, error |-> "",
   details |-> ""]

(* variant: res.json({ error, details }) without res.status(500) *)
ErrorResponseNoStatus(error, details) ==
  [status |-> 200, token |-> NoJwt, expiresIn |-> 0, error |-> error, details |-> details]

(* res.status(500).json({ error, details }) *)
ErrorResponse(error, details) ==
  [status |-> 500, token |-> NoJwt, expiresIn |-> 0, error |-> error, details |-> details]

(* body of a POST /auth/device-token request *)
NoDeviceRequest == [deviceId |-> "", platform |-> "", appVersion |-> "", timestamp |-> 0]

NoRequest ==
  [route |-> "", stage |-> "idle", upstreamCalls |-> 0, awaited |-> "none",
   responses |-> 0, response |-> NoResponse,
   request |-> NoDeviceRequest, receivedAt |-> 0]

(* configuration of the Device Request Validator *)
AllowedAppVersions == {"1.0.0"}
ReplayWindowMs == 300000

Abs(x) == IF x < 0 THEN 0 - x ELSE x

(* variant: the version is checked before the presence of the fields *)
ValidateVersionFirst(request, serverNow) ==
  IF request.appVersion \notin AllowedAppVersions THEN "UnsupportedVersion"
  ELSE IF request.deviceId = "" \/ request.appVersion = "" \/ request.platform = ""
  THEN "MissingField"
  ELSE IF Abs(serverNow - request.timestamp) > ReplayWindowMs THEN "StaleOrFutureRequest"
  ELSE "accept"

(* variant: only timestamps in the past are bounded, and the bound itself  *)
(* is rejected                                                             *)
ValidatePastOnly(request, serverNow) ==
  IF request.deviceId = "" \/ request.appVersion = "" \/ request.platform = ""
  THEN "MissingField"
  ELSE IF request.appVersion \notin AllowedAppVersions THEN "UnsupportedVersion"
  ELSE IF serverNow - request.timestamp >= ReplayWindowMs THEN "StaleOrFutureRequest"
  ELSE "accept"

(* validate(request): presence, version, freshness, the first failure wins *)
Validate(request, serverNow) ==
  IF request.deviceId = "" \/ request.appVersion = "" \/ request.platform = ""
  THEN "MissingField"
  ELSE IF request.appVersion \notin AllowedAppVersions THEN "UnsupportedVersion"
  ELSE IF Abs(serverNow - request.timestamp) > ReplayWindowMs THEN "StaleOrFutureRequest"
  ELSE "accept"

(* 401 {error, message} *)
Unauthorized(error, message) ==
  [status |-> 401, token |-> NoJwt, expiresIn |-> 0, error |-> error, details |-> message]

(* variant: the handler mints whatever the Validator said *)
DeviceTokenStatusUngated(valid, upstreamOk) == IF upstreamOk THEN 200 ELSE 500

(* variant: every request that reaches the handler is answered 200 *)
PublicTokenStatusAlwaysOk(upstreamOk) == 200

(* router.get("/public-token"): one upstream mint, 200 or 500 *)
PublicTokenStatus(upstreamOk) == IF upstreamOk THEN 200 ELSE 500

(* POST /auth/device-token: validation failure 401, upstream failure 500 *)
DeviceTokenStatus(valid, upstreamOk) ==
  IF ~valid THEN 401 ELSE IF upstreamOk THEN 200 ELSE 500

(* What the client's fetch sees: the request may not reach the service     *)
(* (fetch rejects, status 0), the layer in front of the service may deny   *)
(* it (401, 403), or the handler answers.                                  *)
Edges == {"unreachable", "deny401", "deny403", "pass"}

FetchStatus(edge, valid, upstreamOk) ==
  CASE edge = "unreachable" -> 0
    [] edge = "deny401" -> 401
    [] edge = "deny403" -> 403
    [] OTHER -> IF build = "identity" THEN PublicTokenStatus(upstreamOk)
                ELSE DeviceTokenStatus(valid, upstreamOk)

(* ------------------------------ client --------------------------------- *)

(* Device.osName is a string, or null where the platform does not tell *)
NoOsName == "null"
OsNames == {NoOsName, "iOS"}

(* process.env.EXPO_PUBLIC_APP_VERSION, "" when unset *)
EXPO_PUBLIC_APP_VERSION == ""

(* process.env.EXPO_PUBLIC_APP_VERSION || "1.0.0" *)
AppVersion == IF EXPO_PUBLIC_APP_VERSION = "" THEN "1.0.0" ELSE EXPO_PUBLIC_APP_VERSION

(* headers of the POST /auth/device-token fetch *)
DeviceTokenHeaders(did) ==
  [XDeviceID |-> did,
   XAppVersion |-> AppVersion,
   XPlatform |-> IF osName = NoOsName THEN "unknown" ELSE osName]

(* body of the POST /auth/device-token fetch, sent at time t *)
DeviceTokenBody(did, t) ==
  [deviceId |-> did, platform |-> osName, appVersion |-> AppVersion, timestamp |-> t]

(* `if (!response.ok) { ... throw }` and a rejected fetch *)
ResponseError(status) ==
  IF status = 0 THEN Err("Network request failed", 0)
  ELSE IF build = "identity" /\ status \in {401, 403}
       THEN Err("Authentication failed", status)
       ELSE Err("Server error", status)

(* outer catch of getCloudRunToken *)
OuterCatch(error) == Err("Failed to authenticate with service", 0)

(* while (retryCount < maxRetries) *)
LoopCondition(rc) == rc < maxRetries

(* variant: the catch gives up one failure later *)
ExhaustedLate(rc) == rc > maxRetries

(* if (retryCount >= maxRetries) throw error *)
Exhausted(rc) == rc >= maxRetries

(* variant: a delay that grows linearly *)
BackoffDelayLinear(rc) == BackoffBaseMs * rc

(* setTimeout(resolve, 1000 * Math.pow(2, retryCount)) *)
BackoffDelay(rc) == BackoffBaseMs * 2^rc

(* variant: the comparison the other way round *)
CacheValidInverted(t) ==
  /\ cachedCloudRunToken # NoToken
  /\ tokenExpiry # Null /\ tokenExpiry # 0
  /\ t > tokenExpiry

(* variant: a token is still valid at its expiry time *)
CacheValidInclusive(t) ==
  /\ cachedCloudRunToken # NoToken
  /\ tokenExpiry # Null /\ tokenExpiry # 0
  /\ t <= tokenExpiry

(* cachedCloudRunToken && tokenExpiry && now < tokenExpiry *)
CacheValid(t) ==
  /\ cachedCloudRunToken # NoToken
  /\ tokenExpiry # Null /\ tokenExpiry # 0
  /\ t < tokenExpiry

(* tokenExpiry = now + 50 * 60 * 1000 *)
CachedExpiry(t) == t + CacheLifetimeMs

(* tokenExpiry = Date.now() + (data.expiresIn - 60) * 1000 *)
DeviceBuildExpiry(t, expiresIn) == t + (expiresIn - DeviceBuildMarginSeconds) * 1000

(* State after the module is loaded, whichever build it is *)
Loaded ==
  /\ clock = 0
  /\ ticks = 0
  /\ cachedCloudRunToken = NoToken
  /\ tokenExpiry = Null
  /\ device_id = ""
  /\ pc = [c \in Calls |-> "idle"]
  /\ kind = [c \in Calls |-> "none"]
  /\ now = [c \in Calls |-> 0]
  /\ deviceId = [c \in Calls |-> ""]
  /\ identityToken = [c \in Calls |-> Null]
  /\ retryCount = [c \in Calls |-> 0]
  /\ reqPreClear = [c \in Calls |-> FALSE]
  /\ wakeAt = [c \in Calls |-> 0]
  /\ reqCount = [c \in Calls |-> 0]
  /\ waits = [c \in Calls |-> <<>>]
  /\ authDenied = [c \in Calls |-> FALSE]
  /\ lastError = [c \in Calls |-> NoError]
  /\ result = [c \in Calls |-> NoResult]
  /\ pristine = TRUE
  /\ failures = 0

(* the service has received nothing *)
ServiceLoaded == req = [r \in Requests |-> NoRequest]

(* pixmix-frontend/services/authService.ts *)
Init ==
  /\ build = "identity"
  /\ isDevice = FALSE
  /\ osName = "iOS"
  /\ Loaded
  /\ privateKey = "pem"
  /\ ServiceLoaded

(* the build of unnamed/part_001 *)
DeviceInit ==
  /\ build = "device"
  /\ isDevice \in BOOLEAN
  /\ osName \in OsNames
  /\ Loaded
  /\ privateKey = "pem"
  /\ ServiceLoaded

(* gcloud-authentication/src/routes/auth.ts, with any configuration of the *)
(* signing key                                                             *)
ServiceInit ==
  /\ build = "identity"
  /\ isDevice = FALSE
  /\ osName = "iOS"
  /\ Loaded
  /\ privateKey \in PrivateKeys
  /\ ServiceLoaded


(* ------------------------- steps of one call --------------------------- *)

Returned(tok, hit, first) ==
  [done |-> TRUE, ok |-> TRUE, token |-> tok, error |-> NoError, fromCache |-> hit,
   first |-> first]

Thrown(err) ==
  [done |-> TRUE, ok |-> FALSE, token |-> NoToken, error |-> err, fromCache |-> FALSE,
   first |-> FALSE]

MaxOf(a, b) == IF a >= b THEN a ELSE b

(* variant: getCachedCloudRunToken acquires again when getCloudRunToken throws *)
LeaveOrAcquireAgain(c, res) ==
  /\ pc' = [pc EXCEPT ![c] = IF kind[c] = "cached" /\ ~res.ok THEN "identity" ELSE "done"]
  /\ result' = [result EXCEPT ![c] = IF kind[c] = "cached" /\ ~res.ok THEN @ ELSE res]
  /\ deviceId' = [deviceId EXCEPT ![c] = ""]
  /\ retryCount' = [retryCount EXCEPT ![c] = 0]

(* The call returns or throws: the locals of getCloudRunToken are gone *)
Leave(c, res) ==
  /\ pc' = [pc EXCEPT ![c] = "done"]
  /\ result' = [result EXCEPT ![c] = res]
  /\ deviceId' = [deviceId EXCEPT ![c] = ""]
  /\ retryCount' = [retryCount EXCEPT ![c] = 0]

(* Top of the while loop with retry count rc: either the fetch of the next *)
(* attempt is issued, or the loop is left and the throw after it is caught *)
(* by the outer catch.  did is the device id the request carries.          *)
LoopTop(c, rc, did) ==
  IF LoopCondition(rc)
  THEN /\ pc' = [pc EXCEPT ![c] = "fetch"]
       /\ reqCount' = [reqCount EXCEPT ![c] = @ + 1]
       /\ reqPreClear' = [reqPreClear EXCEPT ![c] = FALSE]
       /\ retryCount' = [retryCount EXCEPT ![c] = rc]
       /\ deviceId' = [deviceId EXCEPT ![c] = did]
       /\ result' = result
  ELSE /\ Leave(c, Thrown(OuterCatch(Err("Failed to get Cloud Run token after retries", 0))))
       /\ UNCHANGED <<reqCount, reqPreClear>>

(* calls are numbered in the order they are made *)
NextCall(c) == IF c = 1 THEN TRUE ELSE pc[c - 1] # "idle"

(* getCachedCloudRunToken, up to its return from the cache or its await of *)
(* getCloudRunToken, which runs up to its first await                      *)
GetCachedCloudRunToken(c) ==
  /\ pc[c] = "idle"
  /\ NextCall(c)
  /\ kind' = [kind EXCEPT ![c] = "cached"]
  /\ pristine' = FALSE
  /\ IF CacheValid(clock)
     THEN /\ pc' = [pc EXCEPT ![c] = "done"]
          /\ result' = [result EXCEPT ![c] = Returned(cachedCloudRunToken, TRUE, pristine)]
     ELSE /\ pc' = [pc EXCEPT ![c] = "identity"]
          /\ result' = result
  /\ now' = [now EXCEPT ![c] = clock]
  /\ UNCHANGED <<envVars, serviceVars, identityToken, clock, ticks, cacheVars, device_id, deviceId, retryCount,
                 reqPreClear, wakeAt, reqCount, waits, authDenied, lastError, failures>>

(* getCloudRunToken called by itself (debug screen, testAuthenticationFlow) *)
GetCloudRunToken(c) ==
  /\ pc[c] = "idle"
  /\ NextCall(c)
  /\ kind' = [kind EXCEPT ![c] = "direct"]
  /\ pc' = [pc EXCEPT ![c] = "identity"]
  /\ UNCHANGED <<envVars, serviceVars, identityToken, clock, ticks, cacheVars, device_id, now, deviceId,
                 retryCount, reqPreClear, wakeAt, reqCount, waits, authDenied,
                 lastError, result, pristine, failures>>

(* `await getGoogleIdentityToken()` settles: the loop is entered with the  *)
(* token, or the throw goes to the outer catch                             *)
(* variant: the loop is entered without an identity token *)
GetGoogleIdentityTokenIgnored(c) ==
  /\ LoopTop(c, 0, "")
  /\ identityToken' = identityToken

(* getGoogleIdentityToken throws: the throw leaves the await before the    *)
(* loop and is caught by the outer catch of getCloudRunToken               *)
GetGoogleIdentityTokenThrows(c) ==
  /\ Leave(c, Thrown(OuterCatch(Err("No Google Identity token available", 0))))
  /\ UNCHANGED <<reqCount, reqPreClear, identityToken>>

GetGoogleIdentityToken(c) ==
  /\ build = "identity"
  /\ pc[c] = "identity"
  /\ \E ok \in BOOLEAN :
       IF ok
       THEN /\ LoopTop(c, 0, "")
            /\ identityToken' = [identityToken EXCEPT ![c] = reqCount[c]]
       ELSE GetGoogleIdentityTokenThrows(c)
  /\ UNCHANGED <<envVars, serviceVars, clock, ticks, cacheVars, device_id, kind, now,
                 wakeAt, waits, authDenied, lastError, pristine, failures>>

Fallback(t) == "fallback-" \o ToString(t)
HardwareId(t) == "model-os-" \o ToString(t)
RandomIds == {"00ff", "a1b2"}

(* variant: the failure is thrown to getCloudRunToken, whose outer catch   *)
(* takes it                                                                *)
GetDeviceIdentifierThrows(c) ==
  /\ Leave(c, Thrown(OuterCatch(Err("Error generating device ID", 0))))
  /\ UNCHANGED <<reqCount, reqPreClear>>

(* catch of getDeviceIdentifier: the fallback identifier is returned and   *)
(* getCloudRunToken enters its loop with it                                *)
GetDeviceIdentifierCatch(c) == LoopTop(c, 0, Fallback(clock))

(* getDeviceIdentifier: `await AsyncStorage.getItem('device_id')` settles *)
DeviceRead(c) ==
  /\ build = "device"
  /\ pc[c] = "identity"
  /\ \E readOk \in BOOLEAN :
       IF ~readOk
       THEN GetDeviceIdentifierCatch(c)
       ELSE IF device_id # ""
       THEN LoopTop(c, 0, device_id)
       ELSE IF isDevice
       THEN /\ deviceId' = [deviceId EXCEPT ![c] = HardwareId(clock)]
            /\ pc' = [pc EXCEPT ![c] = "devstore"]
            /\ UNCHANGED <<reqCount, reqPreClear, result, retryCount>>
       ELSE /\ pc' = [pc EXCEPT ![c] = "devrandom"]
            /\ UNCHANGED <<deviceId, reqCount, reqPreClear, result, retryCount>>
  /\ UNCHANGED <<envVars, serviceVars, identityToken, clock, ticks, cacheVars, device_id, kind, now,
                 wakeAt, waits, authDenied, lastError, pristine, failures>>

(* getDeviceIdentifier: `await Random.getRandomBytesAsync(16)` settles *)
DeviceRandom(c) ==
  /\ pc[c] = "devrandom"
  /\ \E r \in RandomIds \cup {""} :
       IF r = ""
       THEN GetDeviceIdentifierCatch(c)
       ELSE /\ deviceId' = [deviceId EXCEPT ![c] = r]
            /\ pc' = [pc EXCEPT ![c] = "devstore"]
            /\ UNCHANGED <<reqCount, reqPreClear, result, retryCount>>
  /\ UNCHANGED <<envVars, serviceVars, identityToken, clock, ticks, cacheVars, device_id, kind, now,
                 wakeAt, waits, authDenied, lastError, pristine, failures>>

(* variant: the identifier is returned without having been stored *)
DeviceStoreSkipped(c) ==
  /\ pc[c] = "devstore"
  /\ device_id' = device_id
  /\ LoopTop(c, 0, deviceId[c])
  /\ UNCHANGED <<envVars, serviceVars, identityToken, clock, ticks, cacheVars, kind, now,
                 wakeAt, waits, authDenied, lastError, pristine, failures>>

(* getDeviceIdentifier: `await AsyncStorage.setItem('device_id', deviceId)` *)
DeviceStore(c) ==
  /\ pc[c] = "devstore"
  /\ \E writeOk \in BOOLEAN :
       IF writeOk
       THEN /\ device_id' = deviceId[c]
            /\ LoopTop(c, 0, deviceId[c])
       ELSE /\ device_id' = device_id
            /\ GetDeviceIdentifierCatch(c)
  /\ UNCHANGED <<envVars, serviceVars, identityToken, clock, ticks, cacheVars, kind, now,
                 wakeAt, waits, authDenied, lastError, pristine, failures>>

(* variant: a refresh that stores the token only *)
CacheAfterReturnTokenOnly(c, tok, t) ==
  IF kind[c] = "cached" \/ build = "device"
  THEN <<tok, tokenExpiry>>
  ELSE <<cachedCloudRunToken, tokenExpiry>>

(* variant: a refresh that stores the token and leaves a stored expiry *)
CacheAfterReturnKeepsExpiry(c, tok, t) ==
  IF kind[c] = "cached"
  THEN <<tok, IF tokenExpiry # Null THEN tokenExpiry ELSE CachedExpiry(now[c])>>
  ELSE IF build = "device"
  THEN <<tok, DeviceBuildExpiry(t, ExpiresInSeconds)>>
  ELSE <<cachedCloudRunToken, tokenExpiry>>

(* The cache after a call returns token tok at time t: getCloudRunToken of *)
(* the device build stores it, then getCachedCloudRunToken stores it.      *)
CacheAfterReturn(c, tok, t) ==
  IF kind[c] = "cached"
  THEN <<tok, CachedExpiry(now[c])>>
  ELSE IF build = "device"
  THEN <<tok, DeviceBuildExpiry(t, ExpiresInSeconds)>>
  ELSE <<cachedCloudRunToken, tokenExpiry>>

(* variant: a refresh that fails evicts the stored entry *)
CacheAfterThrowEvicts(c) ==
  IF kind[c] = "cached" THEN <<NoToken, Null>> ELSE <<cachedCloudRunToken, tokenExpiry>>

(* The cache after getCloudRunToken throws: the throw passes through the   *)
(* await in getCachedCloudRunToken and the two assignments are not run     *)
CacheAfterThrow(c) == <<cachedCloudRunToken, tokenExpiry>>

(* `await fetch(...)` settles: return data.token, or the catch of the loop *)
FetchSettles(c) ==
  /\ pc[c] = "fetch"
  /\ \E edge \in Edges, valid \in BOOLEAN, upstreamOk \in BOOLEAN :
       LET status == FetchStatus(edge, valid, upstreamOk)
           tok == [call |-> c, attempt |-> reqCount[c], issuedAt |-> clock,
                   preClear |-> reqPreClear[c]]
           error == ResponseError(status)
           rc == retryCount[c] + 1
       IN IF status = 200
          THEN /\ failures' = failures
               /\ Leave(c, Returned(tok, FALSE, FALSE))
               /\ cachedCloudRunToken' = CacheAfterReturn(c, tok, clock)[1]
               /\ tokenExpiry' = CacheAfterReturn(c, tok, clock)[2]
               /\ UNCHANGED <<authDenied, lastError, waits, wakeAt>>
          ELSE /\ failures < MaxFailures
               /\ failures' = failures + 1
               /\ authDenied' = [authDenied EXCEPT ![c] = @ \/ status \in {401, 403}]
               /\ IF Exhausted(rc)
                  THEN /\ Leave(c, Thrown(OuterCatch(error)))
                       /\ cachedCloudRunToken' = CacheAfterThrow(c)[1]
                       /\ tokenExpiry' = CacheAfterThrow(c)[2]
                       /\ lastError' = [lastError EXCEPT ![c] = error]
                       /\ UNCHANGED <<waits, wakeAt>>
                  ELSE /\ pc' = [pc EXCEPT ![c] = "backoff"]
                       /\ retryCount' = [retryCount EXCEPT ![c] = rc]
                       /\ waits' = [waits EXCEPT ![c] = Append(@, BackoffDelay(rc))]
                       /\ wakeAt' = [wakeAt EXCEPT ![c] = clock + BackoffDelay(rc)]
                       /\ UNCHANGED <<result, deviceId, lastError, cacheVars>>
  /\ UNCHANGED <<envVars, serviceVars, identityToken, clock, ticks, device_id, kind, now, reqPreClear,
                 reqCount, pristine>>

(* The timer of the backoff wait fires, at its due time or later, and the  *)
(* loop goes round                                                         *)
BackoffElapses(c) ==
  /\ pc[c] = "backoff"
  /\ clock' = MaxOf(clock, wakeAt[c])
  /\ wakeAt' = [wakeAt EXCEPT ![c] = 0]
  /\ LoopTop(c, retryCount[c], deviceId[c])
  /\ UNCHANGED <<envVars, serviceVars, identityToken, ticks, cacheVars, device_id, kind, now, waits,
                 authDenied, lastError, pristine, failures>>

(* clearTokenCache *)
ClearTokenCache ==
  /\ cachedCloudRunToken' = NoToken
  /\ tokenExpiry' = Null
  /\ reqPreClear' = [c \in Calls |-> reqPreClear[c] \/ pc[c] = "fetch"]
  /\ pristine' = TRUE
  /\ UNCHANGED <<envVars, serviceVars, identityToken, clock, ticks, device_id, pc, kind, now, deviceId,
                 retryCount, wakeAt, reqCount, waits, authDenied, lastError, result, failures>>

(* Time passes, up to the edge of the cached token's validity *)
TickTargets ==
  IF tokenExpiry # Null THEN {tokenExpiry - 1, tokenExpiry, tokenExpiry + 1} ELSE {}

Tick ==
  /\ ticks < MaxTicks
  /\ \E t \in TickTargets : t > clock /\ clock' = t
  /\ ticks' = ticks + 1
  /\ UNCHANGED <<envVars, serviceVars, identityToken, cacheVars, device_id, pc, kind, now, deviceId, retryCount,
                 reqPreClear, wakeAt, reqCount, waits, authDenied, lastError,
                 result, pristine, failures>>

(* ---------------------- handlers of the service ------------------------ *)

(* requests are numbered in the order they arrive *)
NextRequest(r) == IF r = 1 THEN TRUE ELSE req[r - 1].stage # "idle"

(* the handler sends response resp: res.json / res.status(500).json *)
Respond(r, outcome, resp) ==
  req' = [req EXCEPT ![r].stage = "responded",
                     ![r].awaited = outcome,
                     ![r].responses = @ + 1,
                     ![r].response = resp]

(* router.get("/public-token"), up to `await getCloudRunToken()` *)
PublicToken(r) ==
  /\ req[r].stage = "idle"
  /\ NextRequest(r)
  /\ req' = [req EXCEPT ![r].route = "public-token",
                        ![r].stage = "upstream",
                        ![r].upstreamCalls = 1]
  /\ UNCHANGED <<clientVars, clock, privateKey>>

(* variant: the handler tries the upstream issuance a second time *)
PublicTokenCatchRetries(r, details) ==
  IF req[r].upstreamCalls < 2
  THEN req' = [req EXCEPT ![r].upstreamCalls = @ + 1]
  ELSE Respond(r, "failed", ErrorResponse("Failed to generate token", details))

(* catch of router.get("/public-token") *)
PublicTokenCatch(r, details) ==
  Respond(r, "failed", ErrorResponse("Failed to generate token", details))

(* router.get("/public-token"): `await getCloudRunToken()` settles *)
PublicTokenSettles(r) ==
  /\ req[r].stage = "upstream"
  /\ \E upstreamOk \in BOOLEAN :
       IF PublicTokenStatus(upstreamOk) = 200
       THEN Respond(r, IF upstreamOk THEN "ok" ELSE "failed", JsonToken(AccessToken))
       ELSE PublicTokenCatch(r, "upstream error")
  /\ UNCHANGED <<clientVars, clock, privateKey>>

(* router.get("/identity-token"), up to `await googleAuth.getClient()` *)
IdentityToken(r) ==
  /\ req[r].stage = "idle"
  /\ NextRequest(r)
  /\ req' = [req EXCEPT ![r].route = "identity-token", ![r].stage = "client"]
  /\ UNCHANGED <<clientVars, clock, privateKey>>

(* variant: the key is handed to jwt.sign without the check *)
IdentityTokenStatusUnchecked(clientOk, key) ==
  IF ~clientOk THEN 500
  ELSE IF key = "malformed" THEN 500
  ELSE 200

(* router.get("/identity-token") after getClient: a rejected getClient, a  *)
(* missing key and a key jwt.sign rejects all end in the catch             *)
IdentityTokenStatus(clientOk, key) ==
  IF ~clientOk THEN 500
  ELSE IF key = "" THEN 500
  ELSE IF key = "malformed" THEN 500
  ELSE 200

IdentityTokenDetails(clientOk, key) ==
  IF ~clientOk THEN "getClient failed"
  ELSE IF key = "" THEN "CLOUD_RUN_PRIVATE_KEY is not configured"
  ELSE "jwt.sign failed"

(* router.get("/identity-token"): `await googleAuth.getClient()` settles *)
IdentityTokenSettles(r) ==
  /\ req[r].stage = "client"
  /\ \E clientOk \in BOOLEAN :
       IF IdentityTokenStatus(clientOk, privateKey) = 200
       THEN Respond(r, IF clientOk THEN "ok" ELSE "failed",
                    JsonToken(Payload(clock \div 1000)))
       ELSE Respond(r, IF clientOk THEN "ok" ELSE "failed",
                    ErrorResponse("Failed to generate identity token",
                                  IdentityTokenDetails(clientOk, privateKey)))
  /\ UNCHANGED <<clientVars, clock, privateKey>>

(* time passes at the service *)
ServiceTick ==
  /\ clock < MaxServiceTicks * 1500
  /\ clock' = clock + 1500
  /\ UNCHANGED <<clientVars, serviceVars>>

(* requests the network can deliver to POST /auth/device-token *)
DeviceIds == {"", "abc"}
Platforms == {"", "ios"}
AppVersions == {"", "1.0.0", "0.9.0"}
TimestampOffsets == {0 - 600000, 0 - 300001, 0 - 300000, 0, 300000, 300001}

(* POST /auth/device-token: the request is validated on arrival; a         *)
(* rejected request is answered 401, an accepted one goes to the mint      *)
DeviceToken(r) ==
  /\ req[r].stage = "idle"
  /\ NextRequest(r)
  /\ r <= MaxDeviceRequests
  /\ \E d \in DeviceIds, p \in Platforms, v \in AppVersions, o \in TimestampOffsets :
       LET request == [deviceId |-> d, platform |-> p, appVersion |-> v,
                       timestamp |-> clock + o]
           verdict == Validate(request, clock)
       IN IF DeviceTokenStatus(verdict = "accept", TRUE) = 401
          THEN req' = [req EXCEPT ![r].route = "device-token",
                                  ![r].stage = "responded",
                                  ![r].request = request,
                                  ![r].receivedAt = clock,
                                  ![r].responses = @ + 1,
                                  ![r].response = Unauthorized(verdict, "validation failed")]
          ELSE req' = [req EXCEPT ![r].route = "device-token",
                                  ![r].stage = "mint",
                                  ![r].request = request,
                                  ![r].receivedAt = clock,
                                  ![r].upstreamCalls = 1]
  /\ UNCHANGED <<clientVars, clock, privateKey>>

(* POST /auth/device-token: the mint settles, 200 or 500 *)
DeviceTokenSettles(r) ==
  /\ req[r].stage = "mint"
  /\ \E upstreamOk \in BOOLEAN :
       IF DeviceTokenStatus(TRUE, upstreamOk) = 200
       THEN Respond(r, "ok", JsonToken(AccessToken))
       ELSE Respond(r, "failed", ErrorResponse("Failed to generate token", "upstream error"))
  /\ UNCHANGED <<clientVars, clock, privateKey>>

ValidatorNext ==
  \/ \E r \in Requests : DeviceToken(r)
  \/ \E r \in Requests : DeviceTokenSettles(r)
  \/ ServiceTick

ServiceNext ==
  \/ \E r \in Requests : PublicToken(r)
  \/ \E r \in Requests : PublicTokenSettles(r)
  \/ \E r \in Requests : IdentityToken(r)
  \/ \E r \in Requests : IdentityTokenSettles(r)
  \/ ServiceTick

Next ==
  \/ \E c \in Calls : GetCachedCloudRunToken(c)
  \/ \E c \in Calls : GetCloudRunToken(c)
  \/ \E c \in Calls : GetGoogleIdentityToken(c)
  \/ \E c \in Calls : FetchSettles(c)
  \/ \E c \in Calls : BackoffElapses(c)
  \/ ClearTokenCache
  \/ Tick

DeviceNext ==
  \/ \E c \in Calls : GetCachedCloudRunToken(c)
  \/ \E c \in Calls : GetCloudRunToken(c)
  \/ \E c \in Calls : DeviceRead(c)
  \/ \E c \in Calls : DeviceRandom(c)
  \/ \E c \in Calls : DeviceStore(c)
  \/ \E c \in Calls : FetchSettles(c)
  \/ \E c \in Calls : BackoffElapses(c)
  \/ ClearTokenCache
  \/ Tick

(* the client of authService.ts *)
Spec == Init /\ [][Next]_vars

(* the client of unnamed/part_001 *)
DeviceSpec == DeviceInit /\ [][DeviceNext]_vars

(* the service of gcloud-authentication/src/routes/auth.ts *)
ServiceSpec == ServiceInit /\ [][ServiceNext]_vars

(* POST /auth/device-token with the Device Request Validator *)
ValidatorSpec == ServiceInit /\ [][ValidatorNext]_vars

(* ------------------------------ claims --------------------------------- *)

Finished(c) == result[c].done
Minted(c) == result[c].done /\ result[c].ok /\ ~result[c].fromCache
Hit(c) == result[c].done /\ result[c].ok /\ result[c].fromCache

(* C1: once the mint endpoint has answered an attempt of a call with 401   *)
(* or 403, the call has failed: it neither waits for a backoff timer nor   *)
(* has another request in flight.                                          *)
C1_AuthFailureEndsCall ==
  \A c \in Calls : authDenied[c] => pc[c] = "done" /\ ~result[c].ok

(* C2: a call never sends more than 3 mint requests, whatever the          *)
(* outcomes, and a call that has not completed can always take its next    *)
(* step (a settled fetch or an elapsed timer), so the loop ends by a       *)
(* return or a throw within the budget.                                    *)
CallStep(c) ==
  \/ GetGoogleIdentityToken(c)
  \/ FetchSettles(c)
  \/ BackoffElapses(c)

C2_AtMostThreeRequests ==
  \A c \in Calls :
    /\ reqCount[c] <= 3
    /\ (pc[c] \in {"fetch", "backoff"} => retryCount[c] < 3 /\ ENABLED CallStep(c))
    /\ (Finished(c) /\ ~result[c].ok =>
          result[c].error.message = "Failed to authenticate with service")

C2_Witness ==
  \E c \in Calls : Finished(c) /\ ~result[c].ok /\ reqCount[c] = 3

(* C3: a call whose first n attempts failed with transient failures and    *)
(* whose attempt n+1 succeeded returns the token of attempt n+1 after      *)
(* exactly n+1 requests; the waits it asked for are 2000 ms, then 4000 ms, *)
(* and the third attempt is not sent before 6000 ms have passed since the  *)
(* call began.                                                             *)
ExpectedWaits == <<2000, 4000>>

C3_RetryBackoff ==
  \A c \in Calls :
    /\ Len(waits[c]) <= 2
    /\ waits[c] = SubSeq(ExpectedWaits, 1, Len(waits[c]))
    /\ (pc[c] = "fetch" => reqCount[c] = Len(waits[c]) + 1)
    /\ (pc[c] = "fetch" /\ kind[c] = "cached" /\ Len(waits[c]) = 2
          => clock >= now[c] + 6000)
    /\ (Minted(c) /\ ~authDenied[c] =>
          /\ reqCount[c] = Len(waits[c]) + 1
          /\ result[c].token.call = c
          /\ result[c].token.attempt = Len(waits[c]) + 1)

C3_Witness ==
  \E c \in Calls :
    /\ Minted(c) /\ ~authDenied[c] /\ kind[c] = "cached"
    /\ reqCount[c] = 3 /\ result[c].token.attempt = 3
    /\ waits[c] = <<2000, 4000>>
    /\ result[c].token.issuedAt >= now[c] + 6000

Populated == cachedCloudRunToken # NoToken /\ tokenExpiry # Null

(* step of call c that begins getCachedCloudRunToken *)
BeginsCached(c) == pc[c] = "idle" /\ kind'[c] = "cached"

(* C4, as stated: a call answered from the cache and the call that cached  *)
(* the token send exactly one mint request between them and return the     *)
(* same token.                                                             *)
C4_ExactlyOneMintCall ==
  \A c \in Calls :
    Hit(c) =>
      LET first == result[c].token.call
      IN /\ reqCount[first] + reqCount[c] = 1
         /\ result[first].token = result[c].token

(* C4, amended: a getCachedCloudRunToken call made while the cache holds a *)
(* token and now < tokenExpiry sends no mint request, leaves the cache as  *)
(* it is and returns the token the caching call returned; the caching call *)
(* sent one request per attempt, 1 to 3, so the two calls send 1 to 3      *)
(* requests in total.                                                      *)
C4_SecondCallUsesCache ==
  [][\A c \in Calls :
       (BeginsCached(c) /\ Populated /\ clock < tokenExpiry) =>
         LET first == cachedCloudRunToken.call
         IN /\ pc'[c] = "done"
            /\ result'[c].ok
            /\ result'[c].token = result[first].token
            /\ reqCount'[c] = 0
            /\ reqCount'[first] = cachedCloudRunToken.attempt
            /\ cachedCloudRunToken.attempt \in 1..3
            /\ UNCHANGED cacheVars]_vars

C4_Witness ==
  \E c \in Calls :
    /\ Hit(c)
    /\ reqCount[c] = 0
    /\ reqCount[result[c].token.call] = 2
    /\ result[result[c].token.call].token = result[c].token

(* C5: getCachedCloudRunToken tests now < tokenExpiry strictly: with a     *)
(* populated cache, a call at tokenExpiry - 1 ms (or earlier) returns the  *)
(* cached token without a request, and a call at tokenExpiry or at         *)
(* tokenExpiry + 1 ms (or later) goes on to getCloudRunToken.              *)
C5_StrictExpiryTest ==
  [][\A c \in Calls :
       (BeginsCached(c) /\ Populated) =>
         IF clock < tokenExpiry
         THEN /\ pc'[c] = "done"
              /\ result'[c] = Returned(cachedCloudRunToken, TRUE, pristine)
              /\ reqCount'[c] = 0
         ELSE /\ pc'[c] = "identity"
              /\ ~result'[c].done]_vars

C5_Witness ==
  \E c \in Calls :
    /\ Hit(c)
    /\ Populated
    /\ cachedCloudRunToken = result[c].token
    /\ tokenExpiry = now[c] + 1

(* C6: a call whose 3 attempts all failed with transient failures throws   *)
(* an error that wraps the error of its last attempt.                      *)
C6_ExhaustedWrapsLastError ==
  \A c \in Calls :
    (Finished(c) /\ ~result[c].ok /\ reqCount[c] = 3 /\ ~authDenied[c]) =>
      result[c].error.wraps = <<lastError[c]>>

(* C7: a token returned from the cache has at least the safety margin of   *)
(* its server-side life left: now < issuedAt + (ttl - margin), with the    *)
(* ttl of 3600 s and the margin of 600 s.                                  *)
C7_SafetyMarginLeft ==
  \A c \in Calls :
    Hit(c) =>
      now[c] < result[c].token.issuedAt
                 + (3600 - 600) * 1000

(* expiry the call that minted tok stores with it *)
ExpiryStoredWith(tok) ==
  IF kind[tok.call] = "cached"
  THEN now[tok.call] + 3000000
  ELSE tok.issuedAt + 3540000

(* C8: overlapping getCachedCloudRunToken calls that miss each mint their  *)
(* own token; a call that returns a minted token leaves the cache holding  *)
(* its token and its expiry, so the last write wins, and in every state    *)
(* the stored token and the stored expiry were written by the same call.   *)
C8_LastWriteWins ==
  /\ [](Populated => tokenExpiry = ExpiryStoredWith(cachedCloudRunToken))
  /\ [](\A c \in Calls :
          (kind[c] = "cached" /\ pc[c] \in {"fetch", "backoff"}) => reqCount[c] >= 1)
  /\ [][\A c \in Calls :
          (kind[c] = "cached" /\ pc[c] = "fetch" /\ pc'[c] = "done" /\ result'[c].ok) =>
            /\ cachedCloudRunToken' = result'[c].token
            /\ result'[c].token.call = c
            /\ tokenExpiry' = now[c] + 3000000]_vars

C8_Witness ==
  /\ MaxCalls >= 2
  /\ kind[1] = "cached" /\ kind[2] = "cached"
  /\ Minted(1) /\ Minted(2)
  /\ now[2] > now[1]
  /\ cachedCloudRunToken = result[1].token
  /\ tokenExpiry = now[1] + 3000000

(* C9: the first getCachedCloudRunToken call made after clearTokenCache    *)
(* does not return a token minted for a request that was sent before the   *)
(* clear.                                                                  *)
C9_NoTokenFromBeforeClear ==
  \A c \in Calls :
    (Hit(c) /\ result[c].first) => ~result[c].token.preClear

(* C10: getCloudRunToken always sends a mint request and never answers     *)
(* from the cache, and the cache only ever holds what a                    *)
(* getCachedCloudRunToken call stored.                                     *)
C10_CacheOnlyWrittenByCachedCalls ==
  /\ \A c \in Calls :
       (kind[c] = "direct" /\ Finished(c)) => reqCount[c] >= 1 /\ ~result[c].fromCache
  /\ cachedCloudRunToken # NoToken => kind[cachedCloudRunToken.call] = "cached"

(* C11: a getCachedCloudRunToken call that misses enters getCloudRunToken  *)
(* once, from its start and never again; it sends at most 3 mint requests; *)
(* when getCloudRunToken throws, the call ends with that error, the cache  *)
(* is left as it was, and a call that has ended does nothing more.         *)
C11_NoRetryOfItsOwn ==
  /\ [](\A c \in Calls : kind[c] = "cached" => reqCount[c] <= 3)
  /\ [][\A c \in Calls :
          kind'[c] = "cached" =>
            /\ (pc'[c] = "identity" /\ pc[c] # "identity") => pc[c] = "idle"
            /\ pc[c] = "done" =>
                 pc'[c] = "done" /\ result'[c] = result[c] /\ reqCount'[c] = reqCount[c]
            /\ (pc[c] \in {"identity", "fetch"} /\ pc'[c] = "done" /\ ~result'[c].ok) =>
                 /\ UNCHANGED cacheVars
                 /\ result'[c].error = Err("Failed to authenticate with service", 0)]_vars

C11_Witness ==
  \E c \in Calls :
    /\ kind[c] = "cached"
    /\ Finished(c) /\ ~result[c].ok
    /\ reqCount[c] = 3
    /\ cachedCloudRunToken = NoToken

(* the identifier getDeviceIdentifier returned to call c, which its mint    *)
(* requests carry                                                          *)
HasIdentifier(c) == pc[c] \in {"fetch", "backoff"}

(* C12: every call of getDeviceIdentifier returns the same identifier: any *)
(* two calls of getCloudRunToken that hold an identifier hold the same one.*)
C12_SameIdentifierEveryCall ==
  \A c1, c2 \in Calls :
    (HasIdentifier(c1) /\ HasIdentifier(c2)) => deviceId[c1] = deviceId[c2]

InGetDeviceIdentifier(c) == pc[c] \in {"identity", "devrandom", "devstore"}

DeviceStep(c) == DeviceRead(c) \/ DeviceRandom(c) \/ DeviceStore(c)

(* C13: getDeviceIdentifier never throws to getCloudRunToken: each of its  *)
(* steps, failed or not, leaves the call inside getDeviceIdentifier or     *)
(* sending its first mint request with a non-empty identifier; a step that *)
(* failed (read, random bytes or write) gives the fallback derived from    *)
(* the time; and a call inside getDeviceIdentifier can always go on.       *)
C13_IdentifierNeverFails ==
  /\ [](\A c \in Calls : InGetDeviceIdentifier(c) => ENABLED DeviceStep(c))
  /\ [](\A c \in Calls : HasIdentifier(c) => deviceId[c] # "" /\ reqCount[c] >= 1)
  /\ [][\A c \in Calls :
          (InGetDeviceIdentifier(c) /\ pc'[c] # pc[c]) =>
            /\ pc'[c] \in {"devrandom", "devstore", "fetch"}
            /\ ~result'[c].done
            /\ pc'[c] = "fetch" =>
                 /\ reqCount'[c] = 1
                 /\ CASE pc[c] = "identity" ->
                           \/ deviceId'[c] = device_id /\ device_id # ""
                           \/ deviceId'[c] = Fallback(clock)
                      [] pc[c] = "devrandom" -> deviceId'[c] = Fallback(clock)
                      [] OTHER ->
                           \/ deviceId'[c] = deviceId[c] /\ device_id' = deviceId[c]
                           \/ deviceId'[c] = Fallback(clock) /\ device_id' = device_id]_vars

C13_Witness ==
  \E c \in Calls :
    /\ pc[c] = "fetch"
    /\ reqCount[c] = 1
    /\ deviceId[c] = Fallback(clock)
    /\ device_id = ""

Responded(r) == req[r].stage = "responded"
OnRoute(r, route) == req[r].route = route

(* C14: GET /auth/identity-token answers 500 without a token whenever no   *)
(* private key is configured, and answers 200, with a signed assertion,    *)
(* only when a key is configured.                                          *)
C14_NoKeyNoAssertion ==
  \A r \in Requests :
    (Responded(r) /\ OnRoute(r, "identity-token")) =>
      /\ req[r].response.status \in {200, 500}
      /\ privateKey = "" =>
           req[r].response.status = 500 /\ req[r].response.token = NoJwt
      /\ req[r].response.status = 200 =>
           privateKey # "" /\ req[r].response.token.kind = "assertion"

C14_Witness ==
  \E r \in Requests :
    /\ Responded(r) /\ OnRoute(r, "identity-token")
    /\ privateKey = ""
    /\ req[r].awaited = "ok"
    /\ req[r].response.status = 500
    /\ req[r].response.details = "CLOUD_RUN_PRIVATE_KEY is not configured"

(* C15: for one GET /auth/public-token request the handler invokes the     *)
(* upstream issuance at most once; when it failed, the answer is 500 with  *)
(* the error details, after that single invocation.                        *)
C15_NoRetryInService ==
  \A r \in Requests :
    OnRoute(r, "public-token") =>
      /\ req[r].upstreamCalls <= 1
      /\ (Responded(r) /\ req[r].awaited = "failed") =>
           /\ req[r].response.status = 500
           /\ req[r].response.details # ""
           /\ req[r].upstreamCalls = 1

C15_Witness ==
  \E r \in Requests :
    /\ Responded(r) /\ OnRoute(r, "public-token")
    /\ req[r].awaited = "failed"
    /\ req[r].upstreamCalls = 1
    /\ req[r].response.status = 500

(* C16, as stated: every GET /auth/public-token request that reaches the   *)
(* handler is answered 200 with a token.                                   *)
C16_AlwaysSucceeds ==
  \A r \in Requests :
    (Responded(r) /\ OnRoute(r, "public-token")) =>
      req[r].response.status = 200 /\ req[r].response.token # NoJwt

(* C16, amended: the handler of GET /auth/public-token rejects no request  *)
(* itself: a request that reaches it is answered 200 with {token,          *)
(* expiresIn} exactly when the upstream issuance succeeded, and 500        *)
(* otherwise.                                                              *)
C16_SucceedsUnlessUpstreamFails ==
  \A r \in Requests :
    (Responded(r) /\ OnRoute(r, "public-token")) =>
      /\ req[r].response.status \in {200, 500}
      /\ req[r].response.status = 200 <=> req[r].awaited = "ok"
      /\ req[r].response.status = 200 =>
           req[r].response.token = AccessToken /\ req[r].response.expiresIn = 3600

C16_Witness ==
  \E r1, r2 \in Requests :
    /\ Responded(r1) /\ OnRoute(r1, "public-token")
    /\ Responded(r2) /\ OnRoute(r2, "public-token")
    /\ req[r1].awaited = "ok" /\ req[r1].response.status = 200
    /\ req[r2].awaited = "failed" /\ req[r2].response.status = 500

FullSuccess(resp) ==
  /\ resp.status = 200
  /\ resp.token # NoJwt
  /\ resp.expiresIn = 3600
  /\ resp.error = ""

FullFailure(resp) ==
  /\ resp.status = 500
  /\ resp.token = NoJwt
  /\ resp.error # ""

(* C17: every request to /auth/public-token or /auth/identity-token gets   *)
(* exactly one response, 200 with a token and expiresIn = 3600 or 500 with *)
(* an error and no token; the outcome is decided by the request's own      *)
(* upstream outcome and the configured key, whatever happened to the other *)
(* requests, and handling a request changes nothing but that request.      *)
C17_AllOrNothing ==
  /\ [](\A r \in Requests :
          /\ req[r].responses <= 1
          /\ Responded(r) <=> req[r].responses = 1
          /\ Responded(r) =>
               /\ FullSuccess(req[r].response) \/ FullFailure(req[r].response)
               /\ FullSuccess(req[r].response) <=>
                    /\ req[r].awaited = "ok"
                    /\ OnRoute(r, "identity-token") => privateKey = "pem")
  /\ [][/\ privateKey' = privateKey
        /\ \A r \in Requests :
             /\ Responded(r) => req'[r] = req[r]
             /\ req'[r] # req[r] => \A q \in Requests \ {r} : req'[q] = req[q]]_vars

C17_Witness ==
  /\ MaxRequests >= 3
  /\ \A r \in 1..3 : Responded(r)
  /\ OnRoute(1, "public-token") /\ FullFailure(req[1].response)
  /\ OnRoute(2, "public-token") /\ FullSuccess(req[2].response)
  /\ OnRoute(3, "identity-token") /\ FullSuccess(req[3].response)

Received(r) == OnRoute(r, "device-token") /\ req[r].stage # "idle"

FieldMissing(q) == q.deviceId = "" \/ q.appVersion = "" \/ q.platform = ""

(* distance between the server's clock at arrival and the request's timestamp *)
Skew(r) == Abs(req[r].receivedAt - req[r].request.timestamp)

Rejected(r, error) ==
  /\ Responded(r)
  /\ req[r].response.status = 401
  /\ req[r].response.error = error

(* C18: a request missing deviceId, appVersion or platform is rejected     *)
(* with MissingField whatever its version and timestamp, and a request     *)
(* with the three fields present and an appVersion outside the allow-set   *)
(* is rejected with UnsupportedVersion whatever its timestamp.             *)
C18_ChecksInOrder ==
  \A r \in Requests :
    Received(r) =>
      /\ FieldMissing(req[r].request) => Rejected(r, "MissingField")
      /\ (~FieldMissing(req[r].request) /\ req[r].request.appVersion \notin AllowedAppVersions) =>
           Rejected(r, "UnsupportedVersion")

C18_Witness ==
  \E r \in Requests :
    /\ Received(r)
    /\ req[r].request.platform = ""
    /\ req[r].request.deviceId = "abc"
    /\ req[r].request.appVersion = "0.9.0"
    /\ Skew(r) = 600000
    /\ Rejected(r, "MissingField")

(* C19: a request that passed the presence and version checks is rejected  *)
(* with StaleOrFutureRequest exactly when its timestamp is more than       *)
(* 300000 ms away from the server's clock, in the past or in the future;   *)
(* at exactly 300000 ms it passes.                                         *)
C19_FreshnessSymmetricInclusive ==
  \A r \in Requests :
    (Received(r) /\ ~FieldMissing(req[r].request)
       /\ req[r].request.appVersion \in AllowedAppVersions) =>
      /\ Rejected(r, "StaleOrFutureRequest") <=> Skew(r) > 300000
      /\ Skew(r) <= 300000 => req[r].upstreamCalls = 1 /\ req[r].response.status # 401

C19_Witness ==
  \E r \in Requests :
    /\ Received(r)
    /\ req[r].request.timestamp = req[r].receivedAt + 300000
    /\ Responded(r)
    /\ req[r].response.status = 200

(* C20: a token is minted for a POST /auth/device-token request only if    *)
(* the fields are present, the appVersion is in the allow-set and the      *)
(* timestamp is within the replay window; a request failing any of the     *)
(* three is answered 401 and no mint is attempted for it.                  *)
C20_MintOnlyIfValid ==
  \A r \in Requests :
    Received(r) =>
      LET passes == /\ ~FieldMissing(req[r].request)
                    /\ req[r].request.appVersion \in AllowedAppVersions
                    /\ Skew(r) <= ReplayWindowMs
      IN /\ (req[r].upstreamCalls > 0 \/ req[r].response.token # NoJwt) => passes
         /\ ~passes =>
              /\ Responded(r)
              /\ req[r].response.status = 401
              /\ req[r].response.token = NoJwt
              /\ req[r].upstreamCalls = 0

C20_Witness ==
  \E r \in Requests :
    /\ Received(r) /\ Responded(r)
    /\ req[r].request.deviceId = "abc"
    /\ req[r].request.platform = "ios"
    /\ req[r].request.appVersion = "1.0.0"
    /\ Skew(r) = 300001
    /\ req[r].response.status = 401
    /\ req[r].upstreamCalls = 0

(* C21: every mint request carries an identity assertion fetched after    *)
(* the previous attempt failed: the assertion of the request in flight was *)
(* fetched when the call had sent all its earlier requests.                *)
C21_FreshAssertionEachAttempt ==
  \A c \in Calls :
    pc[c] = "fetch" => identityToken[c] = reqCount[c] - 1

(* C22: after a refresh by getCachedCloudRunToken the stored expiry is     *)
(* issuedAt + (ttl - margin) of the mint response that produced the stored *)
(* token, with the ttl of 3600 s and the margin of 600 s, whatever time    *)
(* the failed attempts and the waits took.                                 *)
C22_ExpiryFromMintResponse ==
  \A c \in Calls :
    (kind[c] = "cached" /\ Minted(c) /\ cachedCloudRunToken = result[c].token) =>
      tokenExpiry = result[c].token.issuedAt + (3600 - 600) * 1000

(* C23: in every state cachedCloudRunToken and tokenExpiry are both null   *)
(* or both set, and a step that stores another token stores its expiry     *)
(* with it.                                                                *)
C23_NeverPartiallyUpdated ==
  /\ [](cachedCloudRunToken = NoToken <=> tokenExpiry = Null)
  /\ [][(cachedCloudRunToken' # cachedCloudRunToken /\ cachedCloudRunToken' # NoToken) =>
          /\ tokenExpiry' # Null
          /\ tokenExpiry' = ExpiryStoredWith(cachedCloudRunToken')]_vars

C23_Witness ==
  /\ Populated
  /\ \E c \in Calls :
       /\ pc[c] = "fetch" /\ reqPreClear[c]
       /\ cachedCloudRunToken.call # c

(* C24: once a value is stored under 'device_id' no step stores a          *)
(* different value.                                                        *)
C24_IdentifierNeverMutated ==
  [][device_id # "" => device_id' = device_id]_vars

(* step by which getDeviceIdentifier returns to call c *)
ReturnsIdentifier(c) == InGetDeviceIdentifier(c) /\ pc'[c] = "fetch"

(* C25, as stated: whenever a call returns an identifier that was not read *)
(* from storage, storage holds exactly that identifier at the return.      *)
C25_PersistedBeforeReturn ==
  [][\A c \in Calls :
       (ReturnsIdentifier(c) /\ ~(pc[c] = "identity" /\ deviceId'[c] = device_id)) =>
         device_id' = deviceId'[c]]_vars

(* C25, amended: whenever a call returns an identifier it derived from the *)
(* hardware descriptors or from random bytes, it has stored exactly that   *)
(* identifier before returning; the only identifier returned without being *)
(* stored is the timestamp fallback, returned after a failed read, random  *)
(* generation or write.                                                    *)
C25_DerivedPersistedBeforeReturn ==
  [][\A c \in Calls :
       ReturnsIdentifier(c) =>
         \/ pc[c] = "identity" /\ deviceId'[c] = device_id /\ device_id' = device_id
         \/ pc[c] = "devstore" /\ deviceId'[c] = deviceId[c] /\ device_id' = deviceId[c]
         \/ deviceId'[c] = Fallback(clock) /\ device_id' = device_id]_vars

C25_Witness ==
  \E c \in Calls :
    /\ pc[c] = "fetch" /\ reqCount[c] = 1
    /\ deviceId[c] \in RandomIds
    /\ device_id = deviceId[c]

(* C26: every assertion GET /auth/identity-token issues has issuer and     *)
(* subject equal to the service account's email, the service's URL as      *)
(* audience, an issue time not after the service's clock and expiry =      *)
(* issue time + 3600 s; the response's expiresIn is 3600 = expiry - issue   *)
(* time.                                                                   *)
C26_AssertionClaims ==
  \A r \in Requests :
    (Responded(r) /\ OnRoute(r, "identity-token") /\ req[r].response.status = 200) =>
      LET a == req[r].response.token
      IN /\ a.kind = "assertion"
         /\ a.iss = ServiceAccountEmail
         /\ a.sub = a.iss
         /\ a.aud = Audience
         /\ a.iat * 1000 <= clock
         /\ a.exp = a.iat + 3600
         /\ req[r].response.expiresIn = 3600
         /\ req[r].response.expiresIn = a.exp - a.iat

C26_Witness ==
  \E r \in Requests :
    /\ Responded(r) /\ OnRoute(r, "identity-token")
    /\ req[r].response.status = 200
    /\ req[r].response.token.iat = 1
    /\ req[r].response.token.exp = 3601

(* the call sends a POST /auth/device-token request in this step *)
SendsDeviceToken(c) ==
  /\ build = "device"
  /\ pc[c] # "fetch"
  /\ pc'[c] = "fetch"

(* C27: in every POST /auth/device-token request the client sends, first   *)
(* attempt or retry, on any device, the headers agree with the body:       *)
(* X-Device-ID = body.deviceId, X-App-Version = body.appVersion and        *)
(* X-Platform = body.platform.                                             *)
C27_HeadersMatchBody ==
  [][\A c \in Calls :
       SendsDeviceToken(c) =>
         LET headers == DeviceTokenHeaders(deviceId'[c])
             body == DeviceTokenBody(deviceId'[c], clock)
         IN /\ headers.XDeviceID = body.deviceId
            /\ headers.XAppVersion = body.appVersion
            /\ headers.XPlatform = body.platform]_vars

(* call c takes a step *)
Moves(c) == pc'[c] # pc[c]

(* the step in which a getCachedCloudRunToken call returns a fresh token *)
RefreshReturns(c) ==
  /\ pc[c] = "fetch"
  /\ result'[c].done /\ result'[c].ok /\ ~result'[c].fromCache

(* C28: when the refresh inside getCachedCloudRunToken fails, the call     *)
(* leaves the cache as it was: no step of a getCachedCloudRunToken call    *)
(* other than the return of a fresh token changes cachedCloudRunToken or   *)
(* tokenExpiry, and the failing call ends with the error getCloudRunToken  *)
(* threw and without a token.                                              *)
C28_FailedRefreshLeavesCache ==
  [][\A c \in Calls :
       (build = "identity" /\ kind'[c] = "cached" /\ Moves(c) /\ ~RefreshReturns(c)) =>
         /\ cachedCloudRunToken' = cachedCloudRunToken
         /\ tokenExpiry' = tokenExpiry
         /\ (pc'[c] = "done" /\ ~result'[c].ok) =>
              /\ result'[c].error.message = "Failed to authenticate with service"
              /\ result'[c].token = NoToken]_vars

C28_Witness ==
  \E c \in Calls :
    /\ kind[c] = "cached"
    /\ Finished(c) /\ ~result[c].ok
    /\ reqCount[c] = 3
    /\ cachedCloudRunToken # NoToken
    /\ cachedCloudRunToken.call # c
    /\ tokenExpiry # Null
    /\ tokenExpiry <= now[c]

(* C29: when getGoogleIdentityToken throws, getCloudRunToken fails at once: *)
(* the call ends in that step with "Failed to authenticate with service",  *)
(* having sent no mint request and waited for no backoff, and the identity *)
(* token is asked for once per call, at its start only.                    *)
C29_NoIdentityTokenNoRequest ==
  /\ [](\A c \in Calls :
          (build = "identity" /\ pc[c] \notin {"idle", "identity"} /\ identityToken[c] = Null
             /\ ~(Finished(c) /\ result[c].fromCache)) =>
            /\ Finished(c) /\ ~result[c].ok
            /\ result[c].error.message = "Failed to authenticate with service"
            /\ reqCount[c] = 0
            /\ waits[c] = <<>>)
  /\ [][\A c \in Calls :
          /\ (pc'[c] = "identity" /\ pc[c] # "identity") => pc[c] = "idle"
          /\ (pc[c] = "identity" /\ Moves(c)) =>
               \/ pc'[c] = "fetch" /\ identityToken'[c] # Null
               \/ pc'[c] = "done" /\ ~result'[c].ok /\ reqCount'[c] = 0
          /\ pc[c] = "done" => pc'[c] = "done" /\ reqCount'[c] = reqCount[c]
                                 /\ waits'[c] = waits[c]]_vars

C29_Witness ==
  \E c \in Calls :
    /\ build = "identity"
    /\ kind[c] = "direct"
    /\ Finished(c) /\ ~result[c].ok
    /\ identityToken[c] = Null
    /\ reqCount[c] = 0
    /\ waits[c] = <<>>

(* C30: getCloudRunToken waits only between attempts.  A wait begins only   *)
(* in the step in which the first or the second attempt fails, for 2000 ms *)
(* and 4000 ms, and is followed by the next attempt; the step in which the *)
(* third attempt fails or any attempt succeeds ends the call without a     *)
(* wait; a call that has ended sends no request and waits no more.         *)
C30_WaitsOnlyBetweenAttempts ==
  [][\A c \in Calls :
       /\ waits'[c] # waits[c] =>
            /\ pc[c] = "fetch" /\ pc'[c] = "backoff"
            /\ reqCount[c] \in {1, 2}
            /\ Len(waits[c]) = reqCount[c] - 1
            /\ waits'[c] = Append(waits[c], ExpectedWaits[reqCount[c]])
       /\ (pc[c] = "backoff" /\ Moves(c)) =>
            /\ pc'[c] = "fetch"
            /\ reqCount'[c] = reqCount[c] + 1
            /\ clock' >= wakeAt[c]
       /\ (pc[c] = "fetch" /\ Moves(c) /\ reqCount[c] = 3) =>
            pc'[c] = "done" /\ waits'[c] = waits[c]
       /\ (pc[c] = "fetch" /\ Moves(c) /\ pc'[c] = "done") =>
            /\ waits'[c] = waits[c]
            /\ reqCount'[c] = reqCount[c]
            /\ (~result'[c].ok => reqCount[c] = 3)
       /\ pc[c] = "done" =>
            pc'[c] = "done" /\ reqCount'[c] = reqCount[c] /\ waits'[c] = waits[c]]_vars

C30_Witness ==
  \E c \in Calls :
    /\ kind[c] = "direct"
    /\ Finished(c) /\ ~result[c].ok
    /\ reqCount[c] = 3
    /\ waits[c] = ExpectedWaits
    /\ clock >= 6000

====
